---- MODULE Spec2Model ----
(***************************************************************************)
(* Model of the `rad sync` command surface (src/src/lib.rs).               *)
(*                                                                         *)
(* An invocation is parsed by the clap-derived `Options` parser into typed *)
(* fields (or rejected), and `SyncMode::new` folds the parsed              *)
(* `SyncModeArgs` and an optional `SyncSettings` into one `SyncMode`.      *)
(*                                                                         *)
(* Two specifications:                                                     *)
(*   Spec     the command line pipeline: Parse, then the call of           *)
(*            SyncMode::new with or without settings, then New.            *)
(*   SpecNew  SyncMode::new called directly on every SyncModeArgs value    *)
(*            and every Option<SyncSettings>, including the bundles the    *)
(*            parser would have rejected.                                  *)
(***************************************************************************)
EXTENDS Integers, Sequences, FiniteSets, TLC

VARIABLES
    pc,        \* "start" | "parsed" | "rejected" | "call" | "resolved"
    inv,       \* the raw invocation (NoInvocation when new is called directly)
    opts,      \* result of Options parsing
    args,      \* SyncModeArgs handed to SyncMode::new
    settings,  \* Option<SyncSettings> handed to SyncMode::new
    mode       \* the SyncMode returned by SyncMode::new

vars == <<pc, inv, opts, args, settings, mode>>

-----------------------------------------------------------------------------
(* Bounds and input alphabets *)

\* largest number of `--seed` occurrences on one command line
MaxSeeds == 3

NodeNames == {"a", "b"}

RepoNames == {"rad:z1"}

SortByTokens == {"nid", "alias", "status", "bogus", "Nid"}

None == [some |-> FALSE]

Some(v) == [some |-> TRUE, val |-> v]

\* a numeric command line token: optional minus sign and decimal digits
Num(neg, digits) == [kind |-> "num", neg |-> neg, digits |-> digits]

\* a token that is not a number at all
Word == [kind |-> "word", neg |-> FALSE, digits |-> <<>>]

\* the decimal digits of 2^64 - 1
U64MaxDigits == <<1,8,4,4,6,7,4,4,0,7,3,7,0,9,5,5,1,6,1,5>>

\* the decimal digits of 2^64, the first literal u64 and usize cannot hold
TooBigDigits == <<1,8,4,4,6,7,4,4,0,7,3,7,0,9,5,5,1,6,1,6>>

ReplicasTokens ==
    { Num(FALSE, <<0>>), Num(FALSE, <<5>>),
      Num(TRUE, <<1>>), Num(FALSE, TooBigDigits), Word }

TimeoutTokens ==
    { Num(FALSE, <<0>>), Num(FALSE, <<3, 0>>),
      Num(TRUE, <<2>>), Num(FALSE, TooBigDigits) }

Opt(S) == {None} \cup { Some(v) : v \in S }

SeqsUpTo(S, n) == UNION { [1..k -> S] : k \in 0..n }

Invocations ==
    [ fetch     : BOOLEAN,
      announce  : BOOLEAN,
      inventory : BOOLEAN,
      replicas  : Opt(ReplicasTokens),
      timeout   : Opt(TimeoutTokens),
      seeds     : SeqsUpTo(NodeNames, MaxSeeds),
      rid       : Opt(RepoNames),
      debug     : BOOLEAN,
      verbose   : BOOLEAN,
      sub       : {"none", "status"},
      sortBy    : Opt(SortByTokens) ]

NoInvocation == [sub |-> "direct"]

-----------------------------------------------------------------------------
(* Value parsers *)

RECURSIVE StripZeros(_)
StripZeros(d) ==
    IF Len(d) > 1 /\ Head(d) = 0 THEN StripZeros(Tail(d)) ELSE d

RECURSIVE LexLeq(_, _)
\* a <= b for digit sequences of equal length
LexLeq(a, b) ==
    IF a = <<>> THEN TRUE
    ELSE IF Head(a) # Head(b) THEN Head(a) < Head(b)
    ELSE LexLeq(Tail(a), Tail(b))

RECURSIVE DigitsValue(_)
DigitsValue(d) ==
    IF d = <<>> THEN 0 ELSE 10 * DigitsValue(SubSeq(d, 1, Len(d) - 1)) + d[Len(d)]

FitsU64(d) ==
    LET n == StripZeros(d)
    IN  Len(n) < Len(U64MaxDigits)
        \/ (Len(n) = Len(U64MaxDigits) /\ LexLeq(n, U64MaxDigits))

ParseUsizeStrict(tok) ==
    IF tok.kind = "num" /\ ~tok.neg /\ tok.digits # <<>> /\ FitsU64(tok.digits)
          /\ DigitsValue(tok.digits) > 0
    THEN [ok |-> TRUE, val |-> DigitsValue(tok.digits)]
    ELSE [ok |-> FALSE]

\* `replicas: usize`: the value parser clap derives from the field type
ParseUsize(tok) ==
    IF tok.kind = "num" /\ ~tok.neg /\ tok.digits # <<>> /\ FitsU64(tok.digits)
    THEN [ok |-> TRUE, val |-> DigitsValue(tok.digits)]
    ELSE [ok |-> FALSE]

\* `timeout: u64`
ParseU64(tok) ==
    IF tok.kind = "num" /\ ~tok.neg /\ tok.digits # <<>> /\ FitsU64(tok.digits)
    THEN [ok |-> TRUE, val |-> DigitsValue(tok.digits)]
    ELSE [ok |-> FALSE]

\* impl FromStr for NodeId: wraps the string, never fails
NodeIdFromStr(s) == [NodeId |-> s]

\* impl FromStr for RepoId: wraps the string, never fails
RepoIdFromStr(s) == [RepoId |-> s]

SortByDefault == "Status"

SortByValueEnumNoAlias(tok) ==
    CASE tok = "nid"    -> [ok |-> TRUE, val |-> "Nid"]
      [] tok = "status" -> [ok |-> TRUE, val |-> "Status"]
      [] OTHER          -> [ok |-> TRUE, val |-> SortByDefault]

\* #[derive(ValueEnum)] for SortBy: the variant names in kebab case
SortByValueEnum(tok) ==
    CASE tok = "nid"    -> [ok |-> TRUE, val |-> "Nid"]
      [] tok = "alias"  -> [ok |-> TRUE, val |-> "Alias"]
      [] tok = "status" -> [ok |-> TRUE, val |-> "Status"]
      [] OTHER          -> [ok |-> FALSE]

\* impl FromStr for SortBy
SortByFromStr(s) ==
    CASE s = "nid"    -> [ok |-> TRUE, val |-> "Nid"]
      [] s = "alias"  -> [ok |-> TRUE, val |-> "Alias"]
      [] s = "status" -> [ok |-> TRUE, val |-> "Status"]
      [] OTHER        -> [ok |-> FALSE, err |-> "invalid --sort-by field"]

-----------------------------------------------------------------------------
(* Settings *)

DEFAULT_REPLICAS == 3

DEFAULT_SYNC_TIMEOUT_SECS == 9

\* time::Duration::from_secs
DurationFromSecs(s) == [secs |-> s, nanos |-> 0]

\* time::Duration::as_secs
DurationAsSecs(d) == d.secs

DEFAULT_SYNC_TIMEOUT == DurationFromSecs(DEFAULT_SYNC_TIMEOUT_SECS)

SyncSettingsDefaultOne ==
    [replicas |-> 1, seeds |-> <<>>, timeout |-> DEFAULT_SYNC_TIMEOUT]

\* impl Default for SyncSettings
SyncSettingsDefault ==
    [replicas |-> 3, seeds |-> <<>>, timeout |-> DEFAULT_SYNC_TIMEOUT]

RECURSIVE Dedup(_)
Dedup(s) ==
    IF s = <<>> THEN <<>>
    ELSE LET r == Dedup(SubSeq(s, 1, Len(s) - 1))
         IN  IF \E i \in 1..Len(r) : r[i] = s[Len(s)] THEN r ELSE Append(r, s[Len(s)])

SyncSettingsFromDedup(s) ==
    [replicas |-> s.replicas, seeds |-> Dedup(s.seeds),
     timeout |-> DurationFromSecs(s.timeout)]

\* impl From<SyncSettingsArgs> for SyncSettings
SyncSettingsFrom(s) ==
    [replicas |-> s.replicas, seeds |-> s.seeds,
     timeout |-> DurationFromSecs(s.timeout)]

\* Option::unwrap_or_default
UnwrapOrDefault(o) == IF o.some THEN o.val ELSE SyncSettingsDefault

-----------------------------------------------------------------------------
(* Direction and mode *)

SyncDirectionDefault == "Both"

SyncDirectionFromNeitherFetch(value) ==
    CASE value.fetch /\ value.announce   -> "Both"
      [] value.fetch /\ ~value.announce  -> "Fetch"
      [] ~value.fetch /\ value.announce  -> "Announce"
      [] OTHER                           -> "Fetch"

SyncDirectionFromSwapped(value) ==
    CASE value.fetch /\ value.announce   -> "Fetch"
      [] value.fetch /\ ~value.announce  -> "Both"
      [] ~value.fetch /\ value.announce  -> "Announce"
      [] OTHER                           -> SyncDirectionDefault

SyncDirectionFromPartial(value) ==
    CASE value.fetch /\ value.announce   -> "Both"
      [] value.fetch /\ ~value.announce  -> "Fetch"
      [] ~value.fetch /\ value.announce  -> "Announce"
      [] OTHER                           -> "Unset"

\* impl From<Directions> for SyncDirection
SyncDirectionFrom(value) ==
    CASE value.fetch /\ value.announce   -> "Both"
      [] value.fetch /\ ~value.announce  -> "Fetch"
      [] ~value.fetch /\ value.announce  -> "Announce"
      [] OTHER                           -> SyncDirectionDefault

Inventory == [tag |-> "Inventory"]

Repo(s, d) == [tag |-> "Repo", settings |-> s, direction |-> d]

NoMode == [tag |-> "none"]

SyncModeNewDirectionFirst(a, s) ==
    IF a.inventory /\ ~a.directions.fetch /\ ~a.directions.announce
    THEN Inventory
    ELSE Repo(UnwrapOrDefault(s), SyncDirectionFrom(a.directions))

\* SyncMode::new
SyncModeNew(a, s) ==
    IF a.inventory
    THEN Inventory
    ELSE Repo(UnwrapOrDefault(s), SyncDirectionFrom(a.directions))

-----------------------------------------------------------------------------
(* Options parsing *)

Rejected(why) == [ok |-> FALSE, err |-> why]

NoOptions == [ok |-> FALSE, err |-> "not parsed"]

ConflictsIgnored(i) == FALSE

ConflictsWithRid(i) == i.inventory /\ (i.fetch \/ i.announce \/ i.rid.some)

\* #[group(conflicts_with = "inventory")] on Directions
Conflicts(i) == i.inventory /\ (i.fetch \/ i.announce)

\* `--sort-by` belongs to the `status` subcommand only
UnknownArgument(i) == i.sub = "none" /\ i.sortBy.some

InvalidValue(i) ==
    \/ i.replicas.some /\ ~ParseUsize(i.replicas.val).ok
    \/ i.timeout.some /\ ~ParseU64(i.timeout.val).ok
    \/ i.sortBy.some /\ ~SortByValueEnum(i.sortBy.val).ok

\* struct SyncModeArgs / Directions: each flag is true iff it was supplied
ParseSyncModeArgs(i) ==
    [directions |-> [fetch |-> i.fetch, announce |-> i.announce],
     inventory  |-> i.inventory]

\* struct SyncSettingsArgs with its default_value_t attributes
ParseSyncSettingsArgs(i) ==
    [replicas |-> IF i.replicas.some THEN ParseUsize(i.replicas.val).val
                  ELSE DEFAULT_REPLICAS,
     seeds    |-> [k \in 1..Len(i.seeds) |-> NodeIdFromStr(i.seeds[k])],
     timeout  |-> IF i.timeout.some THEN ParseU64(i.timeout.val).val
                  ELSE DurationAsSecs(DEFAULT_SYNC_TIMEOUT)]

\* enum Operation: the optional `status` subcommand
ParseOperation(i) ==
    IF i.sub = "status"
    THEN Some([sort_by |-> IF i.sortBy.some THEN SortByValueEnum(i.sortBy.val).val
                           ELSE SortByDefault])
    ELSE None

\* struct Options
ParseOptions(i) ==
    IF UnknownArgument(i) THEN Rejected("unknown argument")
    ELSE IF InvalidValue(i) THEN Rejected("invalid value")
    ELSE IF Conflicts(i) THEN Rejected("argument conflict")
    ELSE [ok       |-> TRUE,
          rid      |-> IF i.rid.some THEN Some(RepoIdFromStr(i.rid.val)) ELSE None,
          debug    |-> i.debug,
          verbose  |-> i.verbose,
          sync     |-> ParseSyncModeArgs(i),
          settings |-> ParseSyncSettingsArgs(i),
          op       |-> ParseOperation(i)]

-----------------------------------------------------------------------------
(* The command line pipeline *)

NoArgs == [inventory |-> FALSE, directions |-> [fetch |-> FALSE, announce |-> FALSE]]

Init ==
    /\ pc = "start"
    /\ inv \in Invocations
    /\ opts = NoOptions
    /\ args = NoArgs
    /\ settings = None
    /\ mode = NoMode

\* Options::parse on the invocation
Parse ==
    /\ pc = "start"
    /\ opts' = ParseOptions(inv)
    /\ pc' = IF opts'.ok THEN "parsed" ELSE "rejected"
    /\ UNCHANGED <<inv, args, settings, mode>>

\* the caller converts the parsed SyncSettingsArgs and passes Some(settings)
CallWithSettings ==
    /\ pc = "parsed"
    /\ args' = opts.sync
    /\ settings' = Some(SyncSettingsFrom(opts.settings))
    /\ pc' = "call"
    /\ UNCHANGED <<inv, opts, mode>>

\* the caller passes no settings
CallWithoutSettings ==
    /\ pc = "parsed"
    /\ args' = opts.sync
    /\ settings' = None
    /\ pc' = "call"
    /\ UNCHANGED <<inv, opts, mode>>

\* SyncMode::new(args, settings)
New ==
    /\ pc = "call"
    /\ mode' = SyncModeNew(args, settings)
    /\ pc' = "resolved"
    /\ UNCHANGED <<inv, opts, args, settings>>

Next == Parse \/ CallWithSettings \/ CallWithoutSettings \/ New

Spec == Init /\ [][Next]_vars

-----------------------------------------------------------------------------
(* SyncMode::new on every argument value *)

SyncModeArgsValues ==
    [directions : [fetch : BOOLEAN, announce : BOOLEAN], inventory : BOOLEAN]

SyncSettingsValues ==
    [replicas : {0, 3, 5},
     seeds    : SeqsUpTo({ NodeIdFromStr(n) : n \in NodeNames }, MaxSeeds),
     timeout  : [secs : {0, 9, 30}, nanos : {0, 500}]]

InitNew ==
    /\ pc = "call"
    /\ inv = NoInvocation
    /\ opts = NoOptions
    /\ args \in SyncModeArgsValues
    /\ settings \in Opt(SyncSettingsValues)
    /\ mode = NoMode

NextNew == New

SpecNew == InitNew /\ [][NextNew]_vars

-----------------------------------------------------------------------------
(* Properties of SyncMode::new (checked under SpecNew) *)

Directions3 == {"Fetch", "Announce", "Both"}

\* C1: whenever the bundle has inventory = true, whatever fetch, announce and
\* the settings argument are, SyncMode::new returns exactly Inventory.
C1_InventoryWins ==
    (pc = "resolved" /\ args.inventory) => mode = Inventory

C1_Witness ==
    /\ pc = "resolved"
    /\ args.inventory /\ args.directions.fetch /\ args.directions.announce
    /\ settings.some /\ settings.val.replicas = 0
    /\ mode = Inventory

\* C2: with inventory = false the result is a Repo whose direction is fixed by
\* (fetch, announce) alone: (F,F) Both, (T,F) Fetch, (F,T) Announce, (T,T) Both.
C2_DirectionTable ==
    (pc = "resolved" /\ ~args.inventory) =>
        /\ mode.tag = "Repo"
        /\ LET f == args.directions.fetch
               a == args.directions.announce
           IN  /\ (~f /\ ~a) => mode.direction = "Both"
               /\ (f /\ ~a)  => mode.direction = "Fetch"
               /\ (~f /\ a)  => mode.direction = "Announce"
               /\ (f /\ a)   => mode.direction = "Both"

C2_Witness ==
    /\ pc = "resolved"
    /\ ~args.inventory /\ ~args.directions.fetch /\ ~args.directions.announce
    /\ settings.some
    /\ mode.tag = "Repo" /\ mode.direction = "Both"

IsSyncSettings(s) ==
    /\ DOMAIN s = {"replicas", "seeds", "timeout"}
    /\ s.replicas \in Nat
    /\ s.seeds \in Seq({ NodeIdFromStr(n) : n \in NodeNames })
    /\ DOMAIN s.timeout = {"secs", "nanos"}
    /\ s.timeout.secs \in Nat /\ s.timeout.nanos \in Nat

\* C9: SyncMode::new is total: every (fetch, announce, inventory) and every
\* settings argument yields one fully constructed SyncMode, either Inventory
\* or a Repo carrying a direction and a settings value; nothing is produced
\* before the call returns and there is no error outcome.
C9_Total ==
    /\ pc = "call" => (mode = NoMode /\ ENABLED New)
    /\ pc = "resolved" =>
          \/ mode = Inventory
          \/ /\ DOMAIN mode = {"tag", "settings", "direction"}
             /\ mode.tag = "Repo"
             /\ mode.direction \in Directions3
             /\ IsSyncSettings(mode.settings)

C9_Witness ==
    /\ pc = "resolved"
    /\ ~settings.some
    /\ ~args.inventory /\ ~args.directions.fetch /\ ~args.directions.announce
    /\ mode.tag = "Repo" /\ mode.direction \in Directions3
    /\ IsSyncSettings(mode.settings)

-----------------------------------------------------------------------------
(* Properties of the command line pipeline (checked under Spec) *)

\* C3: an invocation with --inventory and --fetch or --announce ends in a
\* rejection and never yields a SyncMode.
C3_ConflictRejected ==
    (inv.inventory /\ (inv.fetch \/ inv.announce)) =>
        /\ pc \in {"start", "rejected"}
        /\ pc = "rejected" => ~opts.ok
        /\ mode = NoMode

C3_Witness ==
    /\ pc = "rejected"
    /\ inv.inventory /\ inv.fetch /\ ~inv.announce
    /\ ~opts.ok /\ opts.err = "argument conflict"
    /\ mode = NoMode

\* the number a supplied option names, or the default when it was omitted
Supplied(o, default) == IF o.some THEN DigitsValue(o.val.digits) ELSE default

\* C4: the resolved settings of a non-inventory invocation hold 3, 9 seconds
\* and no seeds for each omitted option and the supplied value for each
\* supplied one; without a settings argument they are exactly the defaults.
C4_Defaults ==
    (pc = "resolved" /\ mode.tag = "Repo") =>
        IF settings.some
        THEN /\ mode.settings.replicas = Supplied(inv.replicas, 3)
             /\ mode.settings.timeout = [secs |-> Supplied(inv.timeout, 9), nanos |-> 0]
             /\ inv.seeds = <<>> => mode.settings.seeds = <<>>
             /\ inv.seeds # <<>> =>
                    mode.settings.seeds = [k \in 1..Len(inv.seeds) |-> [NodeId |-> inv.seeds[k]]]
        ELSE mode.settings = [replicas |-> 3, seeds |-> <<>>,
                              timeout |-> [secs |-> 9, nanos |-> 0]]

C4_Witness ==
    /\ pc = "resolved" /\ mode.tag = "Repo" /\ settings.some
    /\ inv.replicas.some /\ ~inv.timeout.some /\ inv.seeds = <<>>
    /\ mode.settings.replicas = 5
    /\ mode.settings.timeout.secs = 9
    /\ mode.settings.seeds = <<>>

\* C5: the seeds of the resolved settings are the --seed occurrences, same
\* length, same order, duplicates kept.
C5_SeedsPreserved ==
    (pc \in {"call", "resolved"} /\ settings.some) =>
        LET out == IF pc = "call" THEN settings.val.seeds ELSE
                   IF mode.tag = "Repo" THEN mode.settings.seeds ELSE settings.val.seeds
        IN  /\ Len(out) = Len(inv.seeds)
            /\ \A k \in 1..Len(inv.seeds) : out[k].NodeId = inv.seeds[k]

C5_Witness ==
    /\ pc = "resolved" /\ mode.tag = "Repo" /\ settings.some
    /\ inv.seeds = <<"a", "b", "a">>
    /\ mode.settings.seeds = <<[NodeId |-> "a"], [NodeId |-> "b"], [NodeId |-> "a"]>>

\* C6: under `status`, --sort-by nid, alias, status gives Nid, Alias, Status,
\* omission gives Status, and any other token is rejected with no sort field.
C6_SortBy ==
    (pc # "start" /\ inv.sub = "status") =>
        LET sameAsWithout == opts.ok = ParseOptions([inv EXCEPT !.sortBy = None]).ok
            field == opts.op.val.sort_by
        IN  IF ~inv.sortBy.some
            THEN opts.ok => field = "Status"
            ELSE CASE inv.sortBy.val = "nid"    -> sameAsWithout /\ (opts.ok => field = "Nid")
                   [] inv.sortBy.val = "alias"  -> sameAsWithout /\ (opts.ok => field = "Alias")
                   [] inv.sortBy.val = "status" -> sameAsWithout /\ (opts.ok => field = "Status")
                   [] OTHER -> ~opts.ok /\ pc = "rejected" /\ "op" \notin DOMAIN opts

C6_Witness ==
    /\ pc = "parsed" /\ inv.sub = "status"
    /\ inv.sortBy = Some("alias")
    /\ opts.ok /\ opts.op = Some([sort_by |-> "Alias"])

\* the flag bundle that names a resolved Repo mode again
Rederive(m) ==
    [sync |-> [inventory  |-> FALSE,
               directions |-> CASE m.direction = "Fetch"    -> [fetch |-> TRUE,  announce |-> FALSE]
                                [] m.direction = "Announce" -> [fetch |-> FALSE, announce |-> TRUE]
                                [] OTHER                    -> [fetch |-> TRUE,  announce |-> TRUE]],
     settings |-> [replicas |-> m.settings.replicas,
                   seeds    |-> m.settings.seeds,
                   timeout  |-> DurationAsSecs(m.settings.timeout)]]

\* C7: resolving a non-inventory bundle, re-deriving the flag bundle from the
\* SyncMode and resolving again gives the same direction and settings, and
\* the re-derived settings flags are the parsed ones.
C7_RoundTrip ==
    (pc = "resolved" /\ mode.tag = "Repo") =>
        LET b == Rederive(mode)
        IN  /\ SyncModeNew(b.sync, Some(SyncSettingsFrom(b.settings))) = mode
            /\ settings.some => b.settings = opts.settings
            /\ mode.direction = "Fetch" <=> (inv.fetch /\ ~inv.announce)
            /\ mode.direction = "Announce" <=> (~inv.fetch /\ inv.announce)

C7_Witness ==
    /\ pc = "resolved" /\ mode.tag = "Repo" /\ settings.some
    /\ inv.fetch /\ ~inv.announce
    /\ inv.replicas.some /\ inv.timeout.some /\ Len(inv.seeds) = 2
    /\ mode.settings.timeout.secs = 30
    /\ mode.direction = "Fetch"

NonNegative(tok) == tok.kind = "num" /\ ~tok.neg /\ tok.digits # <<>>

Negative(tok) == tok.kind = "num" /\ tok.neg

WithoutReplicas == ParseOptions([inv EXCEPT !.replicas = None])

TimeoutCarried ==
    (pc = "resolved" /\ mode.tag = "Repo" /\ settings.some /\ inv.timeout.some) =>
        /\ mode.settings.timeout.nanos = 0
        /\ mode.settings.timeout.secs >= 0
        /\ mode.settings.timeout.secs = DigitsValue(inv.timeout.val.digits)

ReplicasCarried ==
    (pc = "resolved" /\ mode.tag = "Repo" /\ settings.some /\ inv.replicas.some) =>
        mode.settings.replicas = DigitsValue(inv.replicas.val.digits)

NegativeRejected ==
    (pc # "start" /\ inv.replicas.some /\ Negative(inv.replicas.val)) =>
        (pc = "rejected" /\ ~opts.ok /\ mode = NoMode)

\* C8 as stated: every non-negative integer is accepted for --replicas (zero
\* included and carried unchanged), a negative one is rejected before the
\* resolver, and the resolved timeout is the supplied whole seconds.
C8_AnyNonNegativeAccepted ==
    /\ (pc # "start" /\ inv.replicas.some /\ NonNegative(inv.replicas.val)) =>
           opts.ok = WithoutReplicas.ok
    /\ NegativeRejected
    /\ ReplicasCarried
    /\ TimeoutCarried

\* C8 (amended): every non-negative integer that fits the usize field (at
\* most 2^64 - 1) is accepted for --replicas, zero included and carried
\* unchanged; a negative one is rejected before the resolver; the resolved
\* timeout is the supplied whole seconds.
C8_RepresentableAccepted ==
    /\ (pc # "start" /\ inv.replicas.some /\ NonNegative(inv.replicas.val)
          /\ FitsU64(inv.replicas.val.digits)) =>
           opts.ok = WithoutReplicas.ok
    /\ NegativeRejected
    /\ ReplicasCarried
    /\ TimeoutCarried

C8_Witness ==
    /\ pc = "resolved" /\ mode.tag = "Repo" /\ settings.some
    /\ inv.replicas = Some(Num(FALSE, <<0>>))
    /\ inv.timeout = Some(Num(FALSE, <<3, 0>>))
    /\ mode.settings.replicas = 0
    /\ mode.settings.timeout = [secs |-> 30, nanos |-> 0]

\* C10: the outcome does not depend on --rid, --debug or --verbose: changing
\* them changes neither acceptance, nor the parsed sync and settings fields,
\* nor the resolved SyncMode; --rid with --inventory resolves to Inventory.
C10_GlobalsIgnored ==
    pc # "start" =>
        /\ \A r \in Opt(RepoNames), d \in BOOLEAN, v \in BOOLEAN :
              LET p == ParseOptions([inv EXCEPT !.rid = r, !.debug = d, !.verbose = v])
              IN  /\ p.ok = opts.ok
                  /\ p.ok => /\ p.sync = opts.sync
                             /\ p.settings = opts.settings
                             /\ p.op = opts.op
                  /\ pc = "resolved" =>
                        mode = SyncModeNew(p.sync,
                                           IF settings.some
                                           THEN Some(SyncSettingsFrom(p.settings))
                                           ELSE None)
        /\ (inv.rid.some /\ inv.inventory /\ pc = "resolved") => mode = Inventory

C10_Witness ==
    /\ pc = "resolved"
    /\ inv.rid.some /\ inv.inventory /\ inv.debug /\ inv.verbose
    /\ opts.ok /\ opts.rid = Some(RepoIdFromStr("rad:z1"))
    /\ mode = Inventory

====
